---- MODULE Spec2Model ----
(***************************************************************************)
(* Model of ledlight_controller: the settings loader (config.py), the      *)
(* measurement-to-command mapper (pipeline.py), the entry point (main.py)  *)
(* and the synchronization loop (service.py).                              *)
(*                                                                         *)
(* Numbers.  The program computes with Python floats.  The model computes  *)
(* with exact rationals <<n, d>> (d > 0, lowest terms).  Settings values   *)
(* and lux readings are multiples of 1/Den, written in "units": the        *)
(* integer u stands for the number u/Den.  Floating-point representation   *)
(* error is not modelled; rounding at exact ties is Python's round():      *)
(* half to even.                                                           *)
(***************************************************************************)
EXTENDS Integers, Sequences, FiniteSets, TLC

\* ------------------------------------------------------------------ bounds

\* Resolution of settings values and lux readings: one unit is 1/Den.
Den == 2

\* Largest --iterations value tried; an unbounded run is cut off after
\* MaxIter + 1 started ticks.
MaxIter == 2

\* ------------------------------------------------------- exact arithmetic

Abs(x) == IF x < 0 THEN -x ELSE x

RECURSIVE Gcd(_, _)
Gcd(a, b) == IF b = 0 THEN a ELSE Gcd(b, a % b)

\* The rational n/d in lowest terms with a positive denominator.
Frac(n, d) ==
    LET s == IF d < 0 THEN -1 ELSE 1
        g == Gcd(Abs(n), Abs(d))
    IN  <<(s * n) \div g, (s * d) \div g>>

FInt(i) == <<i, 1>>
FUnits(u) == Frac(u, Den)
FAdd(a, b) == Frac(a[1] * b[2] + b[1] * a[2], a[2] * b[2])
FSub(a, b) == Frac(a[1] * b[2] - b[1] * a[2], a[2] * b[2])
FMul(a, b) == Frac(a[1] * b[1], a[2] * b[2])
FDiv(a, b) == Frac(a[1] * b[2], a[2] * b[1])
FLt(a, b) == a[1] * b[2] < b[1] * a[2]
FLeq(a, b) == a[1] * b[2] <= b[1] * a[2]

\* Python's max(a, b) and min(a, b) on two numbers.
PyMax(a, b) == IF FLt(a, b) THEN b ELSE a
PyMin(a, b) == IF FLt(b, a) THEN b ELSE a

\* Python's round() on a rational: nearest integer, ties to the even one.
RoundHalfEven(x) ==
    LET fl == x[1] \div x[2]
        r  == x[1] % x[2]
    IN  IF 2 * r < x[2] THEN fl
        ELSE IF 2 * r > x[2] THEN fl + 1
        ELSE IF fl % 2 = 0 THEN fl ELSE fl + 1

\* Python's int() on a rational: truncation toward zero.
PyInt(x) == IF x[1] >= 0 THEN x[1] \div x[2] ELSE -((-x[1]) \div x[2])

\* 1e-6, the floor of the lux range.
Epsilon == Frac(1, 1000000)

\* ------------------------------------------------------------- data model

ColorRGB(r, g, b) == [red |-> r, green |-> g, blue |-> b]

\* An optional field is a pair of a presence flag and a value; the value
\* of an absent field is never read.
NoColor == ColorRGB(0, 0, 0)

\* A LightMeasurement as analyse_image builds it: lux and normalized in
\* units, the average color, the dominant channel.
Measurement(hasLux, lux, hasNorm, norm, hasAvg, avg, dom) ==
    [has_lux |-> hasLux, lux |-> lux,
     has_normalized |-> hasNorm, normalized |-> norm,
     has_average_color |-> hasAvg, average_color |-> avg,
     dominant_channel |-> dom]

LampColorCommand(color, brightness, saturation) ==
    [color |-> color, brightness |-> brightness, saturation |-> saturation]

\* Defaults of pipeline.MapperConfig that build_default_app never overrides.
WarmColor == ColorRGB(255, 160, 64)
CoolColor == ColorRGB(255, 255, 235)

\* ----------------------------------------------------------- the mapper

Clamp(value, min_value, max_value) == PyMax(min_value, PyMin(max_value, value))

\* Mutant: the two ends of the blend are swapped.
BlendSwapped(a, b, factor) == FAdd(b, FMul(FSub(a, b), factor))

Blend(a, b, factor) == FAdd(a, FMul(FSub(b, a), factor))

BlendColor(color_a, color_b, factor) ==
    <<Blend(FInt(color_a.red), FInt(color_b.red), factor),
      Blend(FInt(color_a.green), FInt(color_b.green), factor),
      Blend(FInt(color_a.blue), FInt(color_b.blue), factor)>>

\* int(round(_clamp(x, 0.0, 255.0)))
RoundClamp255(x) == RoundHalfEven(Clamp(x, FInt(0), FInt(255)))

\* Mutant: a missing lux is derived from normalized with the constant 255.
EffectiveLuxHardcoded(cfg, m) ==
    IF m.has_lux THEN FUnits(m.lux)
    ELSE IF m.has_normalized
         THEN FMul(FUnits(m.normalized), FInt(255))
         ELSE FUnits(cfg.dark_lux)

\* Lines 61-66: the lux the mapper works with.
EffectiveLux(cfg, m) ==
    IF m.has_lux THEN FUnits(m.lux)
    ELSE IF m.has_normalized
         THEN FMul(FUnits(m.normalized), FUnits(cfg.bright_lux))
         ELSE FUnits(cfg.dark_lux)

\* Mutant: the lux range has no epsilon floor.
LuxRangeNoFloor(cfg) == FSub(FUnits(cfg.bright_lux), FUnits(cfg.dark_lux))

\* Line 68: the width of the lux range, at least 1e-6.
LuxRange(cfg) == PyMax(FSub(FUnits(cfg.bright_lux), FUnits(cfg.dark_lux)), Epsilon)

\* Line 69 divides by the lux range: ZeroDivisionError when it is 0.
MapRaises(cfg, m) == LuxRange(cfg) = FInt(0)

\* Lines 68-70: the normalized input, in [0, 1].
NormalizedInput(cfg, m) ==
    LET lux_range == LuxRange(cfg)
        adjusted  == FDiv(FSub(EffectiveLux(cfg, m), FUnits(cfg.dark_lux)), lux_range)
    IN  Clamp(adjusted, FInt(0), FInt(1))

\* colorsys.rgb_to_hsv's saturation of (r/255, g/255, b/255).
HsvSaturation(c) ==
    LET maxc == IF c.red >= c.green
                THEN (IF c.red >= c.blue THEN c.red ELSE c.blue)
                ELSE (IF c.green >= c.blue THEN c.green ELSE c.blue)
        minc == IF c.red <= c.green
                THEN (IF c.red <= c.blue THEN c.red ELSE c.blue)
                ELSE (IF c.green <= c.blue THEN c.green ELSE c.blue)
    IN  IF minc = maxc THEN FInt(0) ELSE Frac(maxc - minc, maxc)

\* Mutant: the camera's average color is never the source.
LitSourceBlendOnly(cfg, m, normalized) ==
    LET blended == BlendColor(cfg.warm_color, cfg.cool_color, normalized)
    IN  ColorRGB(RoundClamp255(blended[1]),
                 RoundClamp255(blended[2]),
                 RoundClamp255(blended[3]))

\* Lines 79-87: the source color of the lit branch.
LitSource(cfg, m, normalized) ==
    IF cfg.use_camera_average /\ m.has_average_color
    THEN m.average_color
    ELSE LET blended == BlendColor(cfg.warm_color, cfg.cool_color, normalized)
         IN  ColorRGB(RoundClamp255(blended[1]),
                      RoundClamp255(blended[2]),
                      RoundClamp255(blended[3]))

\* Lines 89-92: the source color scaled by brightness / 255.
ScaleColor(source, scale) ==
    ColorRGB(RoundClamp255(FMul(FInt(source.red), scale)),
             RoundClamp255(FMul(FInt(source.green), scale)),
             RoundClamp255(FMul(FInt(source.blue), scale)))

\* The dark-branch test of line 74.
IsDark(normalized) == FLeq(normalized, FInt(0))

\* Mutant: no floor in the dark branch.
DarkFloorMissing(brightness, cfg) == brightness

\* Line 76: the brightness of the dark branch.
DarkFloor(brightness, cfg) == PyMax(brightness, FUnits(cfg.dark_brightness))

\* Mutant: the average color is the saturation source only in
\* camera-average mode.
SatSourceFollowsMode(cfg, m, source) ==
    IF cfg.use_camera_average /\ m.has_average_color THEN m.average_color ELSE source

\* Line 94: the color the saturation is taken from.
SatSource(cfg, m, source) ==
    IF m.has_average_color THEN m.average_color ELSE source

\* Mutant: the saturation is not clamped to the configured range.
SaturationValueUnclamped(cfg, sat_source) == FMul(HsvSaturation(sat_source), FInt(255))

\* Line 99: the saturation before the final rounding and clamp.
SaturationValue(cfg, sat_source) ==
    Clamp(FMul(HsvSaturation(sat_source), FInt(255)),
          FUnits(cfg.min_saturation), FUnits(cfg.max_saturation))

\* DefaultColorMapper.map_measurement.
MapMeasurement(cfg, m) ==
    LET normalized == NormalizedInput(cfg, m)
        blended_brightness ==
            Blend(FUnits(cfg.min_brightness), FUnits(cfg.max_brightness), normalized)
        scale      == FDiv(blended_brightness, FInt(255))
        dark       == IsDark(normalized)
        source     == IF dark THEN cfg.dark_color ELSE LitSource(cfg, m, normalized)
        rgb_color  == IF dark THEN cfg.dark_color ELSE ScaleColor(source, scale)
        brightness == IF dark THEN DarkFloor(blended_brightness, cfg)
                              ELSE blended_brightness
        sat_source == SatSource(cfg, m, source)
        saturation_value == SaturationValue(cfg, sat_source)
    IN  LampColorCommand(rgb_color,
                         RoundClamp255(brightness),
                         RoundClamp255(saturation_value))

\* ------------------------------------------------------ the settings file

\* A value as settings_loader._parse_value returns it, or the absence of
\* the key: "num" is an int or float literal (u units), "huge" a float
\* literal beyond the range of time_t (1.0e30, or 1.0e999 = inf), "bool"
\* a true/false literal, "str" a string.
RawNone    == [t |-> "none", u |-> 0, b |-> FALSE, s |-> ""]
RawNum(u)  == [t |-> "num",  u |-> u, b |-> FALSE, s |-> ""]
RawHuge    == [t |-> "huge", u |-> 0, b |-> FALSE, s |-> ""]
RawBool(b) == [t |-> "bool", u |-> 0, b |-> b,     s |-> ""]
RawStr(s)  == [t |-> "str",  u |-> 0, b |-> FALSE, s |-> s]

\* isinstance(v, (int, float)): bool is a subclass of int.
IsNumber(v) == v.t \in {"num", "huge", "bool"}

\* float(v), in units, of a number that is not huge.
FloatOf(v) == IF v.t = "bool" THEN (IF v.b THEN Den ELSE 0) ELSE v.u

\* float(v) > 0
IsPositive(v) == v.t = "huge" \/ FloatOf(v) > 0

\* str.strip() on the strings the model uses.
Strip(s) == IF s = " " THEN "" ELSE s

\* Python truthiness, as `a or b` tests it.
Truthy(v) ==
    CASE v.t = "none" -> FALSE
      [] v.t = "num"  -> v.u # 0
      [] v.t = "huge" -> TRUE
      [] v.t = "bool" -> v.b
      [] v.t = "str"  -> v.s # ""

\* A time span in seconds: u units, or too large for time.sleep.
Seconds(u) == [huge |-> FALSE, u |-> u]
HugeSeconds == [huge |-> TRUE, u |-> 0]
SecondsOf(v) == IF v.t = "huge" THEN HugeSeconds ELSE Seconds(FloatOf(v))

\* An optional string.
NoString == [has |-> FALSE, s |-> ""]
SomeString(s) == [has |-> TRUE, s |-> s]

\* config._parse_tapo_capture
ParseTapoCapture(settings) ==
    LET interval_value == settings.interval_seconds
        timeout_value  == settings.timeout_seconds
        rtsp_value     == settings.rtsp_url
    IN  [interval_seconds |->
            IF IsNumber(interval_value) /\ IsPositive(interval_value)
            THEN SecondsOf(interval_value) ELSE Seconds(20 * Den),
         timeout_seconds |->
            IF IsNumber(timeout_value) /\ IsPositive(timeout_value)
            THEN SecondsOf(timeout_value) ELSE Seconds(10 * Den),
         rtsp_url |->
            IF rtsp_value.t = "str" /\ Strip(rtsp_value.s) # ""
            THEN SomeString(Strip(rtsp_value.s)) ELSE NoString]

\* config._parse_lamp (protocol and version do not reach the loop)
ParseLamp(settings) ==
    LET device_id_value == settings.device_id
        local_key_value == settings.local_key
        address_value   == IF Truthy(settings.address) THEN settings.address
                                                       ELSE settings.host
        address_ok      == address_value.t = "str" /\ Strip(address_value.s) # ""
    IN  [device_id |->
            IF device_id_value.t = "str" /\ Strip(device_id_value.s) # ""
            THEN SomeString(Strip(device_id_value.s)) ELSE NoString,
         local_key |->
            IF local_key_value.t = "str" /\ Strip(local_key_value.s) # ""
            THEN SomeString(Strip(local_key_value.s)) ELSE NoString,
         address |-> IF address_ok THEN SomeString(Strip(address_value.s)) ELSE NoString,
         host    |-> IF address_ok THEN SomeString(Strip(address_value.s)) ELSE NoString]

\* max(0.0, float(v)), in units
NonNegative(v) == IF FloatOf(v) < 0 THEN 0 ELSE FloatOf(v)

\* Mutant: a dark_color channel is not clamped.
ChannelUnclamped(v) == PyInt(FUnits(FloatOf(v)))

\* int(max(0, min(255, int(v))))
Channel(v) ==
    LET i == PyInt(FUnits(FloatOf(v)))
    IN  IF i < 0 THEN 0 ELSE IF i > 255 THEN 255 ELSE i

\* config.MapperSettings()
DefaultMapperSettings ==
    [dark_lux |-> 0 * Den, bright_lux |-> 255 * Den,
     min_brightness |-> 40 * Den, max_brightness |-> 255 * Den,
     use_camera_average |-> FALSE,
     min_saturation |-> 0 * Den, max_saturation |-> 255 * Den,
     dark_color |-> ColorRGB(20, 4, 3), dark_brightness |-> 12 * Den]

\* config._parse_mapper
ParseMapper(settings) ==
    LET d == DefaultMapperSettings
        dark_lux == IF IsNumber(settings.dark_lux)
                    THEN FloatOf(settings.dark_lux) ELSE d.dark_lux
        bright_lux_0 == IF IsNumber(settings.bright_lux)
                        THEN FloatOf(settings.bright_lux) ELSE d.bright_lux
        min_brightness == IF IsNumber(settings.min_brightness)
                          THEN NonNegative(settings.min_brightness) ELSE d.min_brightness
        max_brightness_0 == IF IsNumber(settings.max_brightness)
                            THEN NonNegative(settings.max_brightness) ELSE d.max_brightness
        bright_lux == IF bright_lux_0 <= dark_lux THEN dark_lux + 1 * Den ELSE bright_lux_0
        max_brightness == IF max_brightness_0 < min_brightness
                          THEN min_brightness ELSE max_brightness_0
        use_camera_average == IF settings.use_camera_average.t = "bool"
                              THEN settings.use_camera_average.b ELSE d.use_camera_average
        min_saturation == IF IsNumber(settings.min_saturation)
                          THEN NonNegative(settings.min_saturation) ELSE d.min_saturation
        max_saturation_0 == IF IsNumber(settings.max_saturation)
                            THEN NonNegative(settings.max_saturation) ELSE d.max_saturation
        max_saturation == IF max_saturation_0 < min_saturation
                          THEN min_saturation ELSE max_saturation_0
        dark_brightness == IF IsNumber(settings.dark_brightness)
                           THEN NonNegative(settings.dark_brightness) ELSE d.dark_brightness
        dark_color == IF /\ IsNumber(settings.dark_color_red)
                         /\ IsNumber(settings.dark_color_green)
                         /\ IsNumber(settings.dark_color_blue)
                      THEN ColorRGB(Channel(settings.dark_color_red),
                                    Channel(settings.dark_color_green),
                                    Channel(settings.dark_color_blue))
                      ELSE d.dark_color
    IN  [dark_lux |-> dark_lux, bright_lux |-> bright_lux,
         min_brightness |-> min_brightness, max_brightness |-> max_brightness,
         use_camera_average |-> use_camera_average,
         min_saturation |-> min_saturation, max_saturation |-> max_saturation,
         dark_color |-> dark_color, dark_brightness |-> dark_brightness]

\* config.load_app_config
LoadAppConfig(settings) ==
    LET capture_config == ParseTapoCapture(settings)
    IN  [camera |-> [rtsp_url |-> capture_config.rtsp_url,
                     snapshot_timeout_s |-> capture_config.timeout_seconds],
         lamp   |-> ParseLamp(settings),
         mapper |-> ParseMapper(settings),
         capture_interval_s |-> capture_config.interval_seconds]

\* The pipeline.MapperConfig that build_default_app hands to the mapper:
\* the loaded mapper settings, and the class defaults for the two colors
\* it does not pass.
PipelineMapperConfig(mapper_settings) ==
    [warm_color |-> WarmColor, cool_color |-> CoolColor,
     min_brightness |-> mapper_settings.min_brightness,
     max_brightness |-> mapper_settings.max_brightness,
     dark_lux |-> mapper_settings.dark_lux,
     bright_lux |-> mapper_settings.bright_lux,
     use_camera_average |-> mapper_settings.use_camera_average,
     min_saturation |-> mapper_settings.min_saturation,
     max_saturation |-> mapper_settings.max_saturation,
     dark_color |-> mapper_settings.dark_color,
     dark_brightness |-> mapper_settings.dark_brightness]

\* ------------------------------------------------------------------ state

VARIABLES
    settings,      \* the parsed settings file: key -> raw value
    iterations,    \* the --iterations option: [has, n]
    pc,            \* where the process is
    config,        \* the AppConfig load_app_config returned
    stop,          \* main's stop condition: [has, count] (remaining["count"])
    runState,      \* the loop: "NotStarted", "Running", "Stopped", "Raised"
    measurement,   \* run()'s local: the measurement captured last
    command,       \* run()'s local: the command mapped last
    observation,   \* the values of the last "Measurement ..." log record
    tick,          \* ticks started
    tickLog,       \* what the current tick has done so far
    counts,        \* calls made so far, by callee
    exitStatus,    \* the process exit status: [done, code]
    raised,        \* the exception that ended the process: [kind, at]
    snapshots      \* temporary snapshot files that exist on disk

vars == <<settings, iterations, pc, config, stop, runState, measurement, command,
          observation, tick, tickLog, counts, exitStatus, raised, snapshots>>

\* ----------------------------------------------------------------- inputs

Merge(a, b) == [k \in DOMAIN a \cup DOMAIN b |-> IF k \in DOMAIN a THEN a[k] ELSE b[k]]

\* The [mapper] section.
MapperSection(dl, bl, minb, maxb, use, mins, maxs, db, dcr, dcg, dcb) ==
    [dark_lux |-> dl, bright_lux |-> bl, min_brightness |-> minb,
     max_brightness |-> maxb, use_camera_average |-> use,
     min_saturation |-> mins, max_saturation |-> maxs, dark_brightness |-> db,
     dark_color_red |-> dcr, dark_color_green |-> dcg, dark_color_blue |-> dcb]

EmptyMapperSection ==
    MapperSection(RawNone, RawNone, RawNone, RawNone, RawNone, RawNone,
                  RawNone, RawNone, RawNone, RawNone, RawNone)

\* The [tapo_capture] and [lamp] sections.
DeviceSections(interval, rtsp, device_id, local_key, address, host) ==
    [interval_seconds |-> interval, timeout_seconds |-> RawNone, rtsp_url |-> rtsp,
     device_id |-> device_id, local_key |-> local_key,
     address |-> address, host |-> host]

ValidDeviceSections ==
    DeviceSections(RawNum(5 * Den), RawStr("rtsp://cam/stream1"), RawStr("bulb-1"),
                   RawStr("key-1"), RawStr("10.0.0.7"), RawNone)

\* Settings files tried by the loop: every combination of the required
\* keys being absent or present (rtsp_url also blank), four intervals, and
\* two [mapper] sections.
LoopIntervals == {RawNone, RawNum(5 * Den), RawNum(-1 * Den), RawHuge}
LoopMapperSections ==
    {EmptyMapperSection,
     MapperSection(RawNum(10 * Den), RawNum(110 * Den), RawNum(0), RawNum(200 * Den),
                   RawBool(TRUE), RawNone, RawNone, RawNum(30 * Den),
                   RawNone, RawNone, RawNone)}
LoopSettings ==
    {Merge(DeviceSections(i, r, d, k, a, h), ms) :
        i \in LoopIntervals,
        r \in {RawNone, RawStr(" "), RawStr("rtsp://cam/stream1")},
        d \in {RawNone, RawStr("bulb-1")},
        k \in {RawNone, RawStr("key-1")},
        a \in {RawNone, RawStr("10.0.0.7")},
        h \in {RawNone, RawStr("lamp.local")},
        ms \in LoopMapperSections}

NoIterations == [has |-> FALSE, n |-> 0]
IterationOptions == {NoIterations} \cup {[has |-> TRUE, n |-> n] : n \in -1 .. MaxIter}

Grey == ColorRGB(128, 128, 128)
Orange == ColorRGB(200, 100, 50)

\* Measurements the camera returns in the loop.
LoopMeasurements ==
    {Measurement(TRUE, 0, TRUE, 0, TRUE, NoColor, "red"),
     Measurement(TRUE, 60 * Den, FALSE, 0, TRUE, Orange, "red")}

\* Before load_app_config has run: what it returns for a missing file.
NoConfig ==
    LoadAppConfig(Merge(DeviceSections(RawNone, RawNone, RawNone, RawNone, RawNone, RawNone),
                        EmptyMapperSection))

NoMeasurement == Measurement(FALSE, 0, FALSE, 0, FALSE, NoColor, "")
NoCommand == LampColorCommand(NoColor, 0, 0)
NoObservation ==
    [logged |-> FALSE, lux_value |-> FInt(0), raw_normalized |-> FInt(0),
     mapped_normalized |-> FInt(0), command |-> NoCommand]

\* The record of a tick: which calls returned, how often apply_state was
\* called and with which command, whether the tick raised, its steps, the
\* exception that ended the capture and the one the loop caught for it,
\* the calls apply_state made on the bulb.
NewTick == [captured |-> FALSE, mapped |-> FALSE, applyCalls |-> 0,
            applied |-> NoCommand, failed |-> FALSE, events |-> <<>>,
            cause |-> "", error |-> "", deviceCalls |-> <<>>]

\* Calls of the stop condition, capture_measurement, map_measurement and
\* apply_state (returned or raised), map_measurement calls that returned,
\* sleeps completed, exceptions logged by the loop.
NoCounts == [stop |-> 0, capture |-> 0, map |-> 0, mapped |-> 0, apply |-> 0,
             sleep |-> 0, errorsLogged |-> 0]

NotExited == [done |-> FALSE, code |-> 0]
Exited(code) == [done |-> TRUE, code |-> code]
NoException == [kind |-> "", at |-> ""]
Exception(kind, at) == [kind |-> kind, at |-> at]

\* ------------------------------------------------------- the entry point

Init ==
    /\ settings \in LoopSettings
    /\ iterations \in IterationOptions
    /\ pc = "main"
    /\ config = NoConfig
    /\ stop = [has |-> FALSE, count |-> 0]
    /\ runState = "NotStarted"
    /\ measurement = NoMeasurement
    /\ command = NoCommand
    /\ observation = NoObservation
    /\ tick = 0
    /\ tickLog = NewTick
    /\ counts = NoCounts
    /\ exitStatus = NotExited
    /\ raised = NoException
    /\ snapshots = 0

\* An exception nobody catches: the interpreter prints the traceback and
\* the process ends with status 1.
Uncaught(kind, at) ==
    /\ pc' = "exited"
    /\ exitStatus' = Exited(1)
    /\ raised' = Exception(kind, at)
    /\ runState' = IF runState = "Running" THEN "Raised" ELSE runState

\* main(), lines 100-109: the stop condition built from --iterations.
Main ==
    /\ pc = "main"
    /\ UNCHANGED snapshots
    /\ stop' = IF iterations.has /\ iterations.n >= 0
               THEN [has |-> TRUE, count |-> iterations.n]
               ELSE [has |-> FALSE, count |-> 0]
    /\ pc' = "build"
    /\ UNCHANGED <<settings, iterations, config, runState, measurement, command,
                   observation, tick, tickLog, counts, exitStatus, raised>>

\* _build_lamp_controller's checks: "" when the lamp settings pass, else
\* the ValueError's subject.
LampConfigError(lamp_config) ==
    IF ~lamp_config.device_id.has \/ ~lamp_config.local_key.has
    THEN "lamp credentials"
    ELSE IF ~(lamp_config.address.has \/ lamp_config.host.has)
         THEN "lamp address"
         ELSE ""

\* Mutant: the camera URL is not checked.
ConfigErrorLampOnly(app_config) ==
    IF ~app_config.lamp.device_id.has \/ ~app_config.lamp.local_key.has
    THEN "lamp credentials"
    ELSE IF ~(app_config.lamp.address.has \/ app_config.lamp.host.has)
         THEN "lamp address"
         ELSE ""

\* build_default_app's checks in the order the code makes them: "" when
\* the settings pass.
ConfigError(app_config) ==
    IF ~app_config.camera.rtsp_url.has
    THEN "rtsp_url"
    ELSE LampConfigError(app_config.lamp)

\* build_default_app, then main's call of run(): tinytuya may be missing,
\* which TuyaBulbController reports with a RuntimeError.
BuildDefaultApp ==
    /\ pc = "build"
    /\ UNCHANGED snapshots
    /\ LET app_config == LoadAppConfig(settings)
       IN  /\ config' = app_config
           /\ IF ConfigError(app_config) # ""
              THEN Uncaught("ValueError", "build")
              ELSE \E tinytuya_installed \in BOOLEAN :
                      IF tinytuya_installed
                      THEN /\ pc' = "check"
                           /\ runState' = "Running"
                           /\ UNCHANGED <<exitStatus, raised>>
                      ELSE Uncaught("RuntimeError", "build")
    /\ UNCHANGED <<settings, iterations, stop, measurement, command, observation,
                   tick, tickLog, counts>>

\* ----------------------------------------------------------------- the loop

Count(callee) == [counts EXCEPT ![callee] = @ + 1]
Event(name) == [tickLog EXCEPT !.events = Append(@, name)]

\* Mutant: the counter is compared with < 0.
StopResultOffByOne == stop.has /\ stop.count < 0

\* main._stop, or the default lambda: FALSE when the loop goes on.
StopResult == stop.has /\ stop.count <= 0

\* Line 39: the stop condition is called; the loop ends or a tick starts.
StopCheck ==
    /\ pc = "check"
    /\ UNCHANGED snapshots
    /\ counts' = Count("stop")
    /\ IF StopResult
       THEN /\ pc' = "exited"
            /\ runState' = "Stopped"
            /\ exitStatus' = Exited(0)
            /\ UNCHANGED <<stop, tick, tickLog>>
       ELSE /\ tick < MaxIter + 1
            /\ stop' = IF stop.has THEN [stop EXCEPT !.count = @ - 1] ELSE stop
            /\ tick' = tick + 1
            /\ tickLog' = NewTick
            /\ pc' = "capture"
            /\ UNCHANGED <<runState, exitStatus>>
    /\ UNCHANGED <<settings, iterations, config, measurement, command, observation, raised>>

\* Mutant: the tick's exception is not caught.
TickFailureEscapes(callee) ==
    /\ Uncaught("Exception", callee)
    /\ counts' = [counts EXCEPT ![callee] = @ + 1]

\* Mutant: the failed call is tried again within the tick.
TickFailureRetries(callee) ==
    /\ pc' = callee
    /\ counts' = [counts EXCEPT ![callee] = @ + 1, !.errorsLogged = @ + 1]
    /\ UNCHANGED <<runState, exitStatus, raised>>

\* Lines 80-81: the tick's exception is logged and the tick goes to its sleep.
TickFailure(callee) ==
    /\ pc' = "sleep"
    /\ counts' = [counts EXCEPT ![callee] = @ + 1, !.errorsLogged = @ + 1]
    /\ UNCHANGED <<runState, exitStatus, raised>>

\* Mutant: after a failed capture the tick goes on to send the command it
\* still holds.
CaptureFallsThrough ==
    /\ pc = "capture"
    /\ UNCHANGED snapshots
    /\ \/ /\ \E m \in LoopMeasurements : measurement' = m
          /\ tickLog' = [Event("capture") EXCEPT !.captured = TRUE]
          /\ counts' = Count("capture")
          /\ pc' = "map"
       \/ /\ counts' = [counts EXCEPT !.capture = @ + 1, !.errorsLogged = @ + 1]
          /\ tickLog' = [Event("capture") EXCEPT !.failed = TRUE]
          /\ pc' = "apply"
          /\ UNCHANGED measurement
    /\ UNCHANGED <<settings, iterations, config, stop, command, observation, tick,
                   runState, exitStatus, raised>>

\* The exceptions that end capture_measurement's try block: ffmpeg exits
\* with an error or runs into the timeout, the snapshot cannot be decoded,
\* or anything else (ffmpeg is not installed, the disk is full).
CaptureFailures == {"CalledProcessError", "TimeoutExpired", "ImageAnalysisError", "OSError"}

\* camera_client.py:90-93: what the loop gets to see of it.
Surfaced(failure) ==
    IF failure \in {"CalledProcessError", "TimeoutExpired", "ImageAnalysisError"}
    THEN "RuntimeError"
    ELSE failure

\* camera_client.py:78-79: the temporary file is created and kept.
CreateSnapshot(files) == files + 1

\* Mutant: the file is removed only on the way out with a measurement.
UnlinkSnapshotOnReturn(files, exists, failure) ==
    IF exists /\ failure = "" THEN files - 1 ELSE files

\* camera_client.py:94-96, the finally clause: the file is removed if it
\* is still there.  failure is "" when the try block returns.
UnlinkSnapshot(files, exists, failure) ==
    IF exists THEN files - 1 ELSE files

\* Line 41: capture_measurement creates its snapshot file, then returns a
\* measurement or raises, and removes the file on the way out.  ffmpeg,
\* when it fails, may itself have removed the file it was to write.
Capture ==
    /\ pc = "capture"
    /\ \/ /\ \E m \in LoopMeasurements : measurement' = m
          /\ snapshots' = UnlinkSnapshot(CreateSnapshot(snapshots), TRUE, "")
          /\ tickLog' = [Event("capture") EXCEPT !.captured = TRUE]
          /\ counts' = Count("capture")
          /\ pc' = "map"
          /\ UNCHANGED <<runState, exitStatus, raised>>
       \/ /\ TickFailure("capture")
          /\ \E failure \in CaptureFailures, exists \in BOOLEAN :
                /\ snapshots' = UnlinkSnapshot(IF exists THEN CreateSnapshot(snapshots)
                                                         ELSE snapshots,
                                               exists, failure)
                /\ tickLog' = [Event("capture") EXCEPT !.failed = TRUE,
                                                       !.cause = failure,
                                                       !.error = Surfaced(failure)]
          /\ UNCHANGED measurement
    /\ UNCHANGED <<settings, iterations, config, stop, command, observation, tick>>

\* Line 56: the mapper returns the command or (another ColorMapper) raises.
MapStep ==
    /\ pc = "map"
    /\ UNCHANGED snapshots
    /\ \/ /\ command' = MapMeasurement(PipelineMapperConfig(config.mapper), measurement)
          /\ tickLog' = [Event("map") EXCEPT !.mapped = TRUE]
          /\ counts' = [counts EXCEPT !.map = @ + 1, !.mapped = @ + 1]
          /\ pc' = "log"
          /\ UNCHANGED <<runState, exitStatus, raised>>
       \/ /\ TickFailure("map")
          /\ tickLog' = [Event("map") EXCEPT !.failed = TRUE]
          /\ UNCHANGED command
    /\ UNCHANGED <<settings, iterations, config, stop, measurement, observation, tick>>

\* Lines 42-54 and 57-78: the values of the "Measurement ..." log record.
Observation(app_config, m, cmd) ==
    LET lux_value == IF m.has_lux THEN FUnits(m.lux) ELSE FInt(0)
        raw_normalized ==
            IF m.has_normalized THEN FUnits(m.normalized)
            ELSE IF lux_value # FInt(0) THEN FDiv(lux_value, FInt(255)) ELSE FInt(0)
        mapper_settings == app_config.mapper
        lux_range == PyMax(FSub(FUnits(mapper_settings.bright_lux),
                                FUnits(mapper_settings.dark_lux)), Epsilon)
        mapped_normalized ==
            Clamp(FDiv(FSub(lux_value, FUnits(mapper_settings.dark_lux)), lux_range),
                  FInt(0), FInt(1))
    IN  [logged |-> TRUE, lux_value |-> lux_value, raw_normalized |-> raw_normalized,
         mapped_normalized |-> mapped_normalized, command |-> cmd]

\* Lines 59-78: the observation is logged.
Observe ==
    /\ pc = "log"
    /\ UNCHANGED snapshots
    /\ observation' = Observation(config, measurement, command)
    /\ tickLog' = Event("log")
    /\ pc' = "apply"
    /\ UNCHANGED <<settings, iterations, config, stop, runState, measurement, command,
                   tick, counts, exitStatus, raised>>

\* A call on the tinytuya bulb: its name and its numeric arguments.
DeviceCall(name, args) == [call |-> name, args |-> args]

\* Mutant: the brightness is sent as well.
DeviceCallsWithBrightness(cmd, bulb_configured) ==
    (IF bulb_configured THEN <<>> ELSE <<DeviceCall("status", <<>>)>>)
    \o <<DeviceCall("turn_on", <<>>),
         DeviceCall("set_mode_colour", <<>>),
         DeviceCall("set_colour", <<cmd.color.red, cmd.color.green, cmd.color.blue>>),
         DeviceCall("set_brightness", <<cmd.brightness>>)>>

\* light_client.py:94-98: the calls apply_state makes on the bulb, in
\* order, when none of them raises.
DeviceCalls(cmd, bulb_configured) ==
    (IF bulb_configured THEN <<>> ELSE <<DeviceCall("status", <<>>)>>)
    \o <<DeviceCall("turn_on", <<>>),
         DeviceCall("set_mode_colour", <<>>),
         DeviceCall("set_colour", <<cmd.color.red, cmd.color.green, cmd.color.blue>>)>>

\* Line 79: apply_state is called with the command; it makes its calls on
\* the bulb and returns, or one of them raises and apply_state raises it
\* again (light_client.py:99-101).
ApplyState ==
    /\ pc = "apply"
    /\ UNCHANGED snapshots
    /\ \E bulb_configured \in BOOLEAN :
          LET calls == DeviceCalls(command, bulb_configured)
          IN  \/ /\ tickLog' = [Event("apply") EXCEPT !.applyCalls = @ + 1,
                                                        !.applied = command,
                                                        !.deviceCalls = calls]
                  /\ counts' = Count("apply")
                  /\ pc' = "sleep"
                  /\ UNCHANGED <<runState, exitStatus, raised>>
              \/ /\ \E k \in 1 .. Len(calls) :
                        tickLog' = [Event("apply") EXCEPT !.applyCalls = @ + 1,
                                                          !.applied = command,
                                                          !.failed = TRUE,
                                                          !.error = "Exception",
                                                          !.deviceCalls = SubSeq(calls, 1, k)]
                  /\ TickFailure("apply")
    /\ UNCHANGED <<settings, iterations, config, stop, measurement, command,
                   observation, tick>>

\* Line 82: time.sleep(capture_interval_s) raises OverflowError for a
\* value beyond time_t; nothing in run() or main() catches it.
Sleep ==
    /\ pc = "sleep"
    /\ UNCHANGED snapshots
    /\ IF config.capture_interval_s.huge
       THEN /\ Uncaught("OverflowError", "sleep")
            /\ UNCHANGED <<tickLog, counts>>
       ELSE /\ tickLog' = Event("sleep")
            /\ counts' = Count("sleep")
            /\ pc' = "check"
            /\ UNCHANGED <<runState, exitStatus, raised>>
    /\ UNCHANGED <<settings, iterations, config, stop, measurement, command,
                   observation, tick>>

Next ==
    \/ Main
    \/ BuildDefaultApp
    \/ StopCheck
    \/ Capture
    \/ MapStep
    \/ Observe
    \/ ApplyState
    \/ Sleep

Spec == Init /\ [][Next]_vars

\* --------------------------------------------------- the mapper on its own

\* [mapper] sections tried: absent keys, in-range values, values below 0
\* and above 255, values that are not whole numbers, bright_lux at or below
\* dark_lux, a maximum below the minimum.
MapperSections ==
    {MapperSection(dl, bl, minb, maxb, use, mins, maxs, db, dc[1], dc[2], dc[3]) :
        dl   \in {RawNone, RawNum(100 * Den)},
        bl   \in {RawNone, RawNum(50 * Den)},
        minb \in {RawNone, RawNum(-5 * Den), RawNum(40 * Den + 1), RawNum(300 * Den)},
        maxb \in {RawNone, RawNum(300 * Den)},
        use  \in {RawNone, RawBool(TRUE)},
        mins \in {RawNone, RawNum(100 * Den + 1), RawNum(300 * Den)},
        maxs \in {RawNone, RawNum(50 * Den)},
        db   \in {RawNone, RawNum(100 * Den)},
        dc   \in {<<RawNone, RawNone, RawNone>>,
                  <<RawNum(300 * Den), RawNum(-4 * Den), RawNum(7 * Den + 1)>>}}

MapperSettings == {Merge(ValidDeviceSections, ms) : ms \in MapperSections}

\* Measurements tried: lux absent, at, below and above the dark and bright
\* points of the sections above; normalized and the average color absent
\* or present.
MapperMeasurements ==
    {Measurement(lux[1], lux[2], norm[1], norm[2], avg[1], avg[2], "red") :
        lux  \in {<<FALSE, 0>>, <<TRUE, 0>>, <<TRUE, 1>>, <<TRUE, 100 * Den>>,
                  <<TRUE, 100 * Den + 1>>, <<TRUE, 255 * Den>>},
        norm \in {<<FALSE, 0>>, <<TRUE, Den \div 2>>},
        avg  \in {<<FALSE, NoColor>>, <<TRUE, Grey>>, <<TRUE, Orange>>}}

MapperInit ==
    /\ settings \in MapperSettings
    /\ iterations = NoIterations
    /\ pc = "mapper_load"
    /\ config = NoConfig
    /\ stop = [has |-> FALSE, count |-> 0]
    /\ runState = "NotStarted"
    /\ measurement = NoMeasurement
    /\ command = NoCommand
    /\ observation = NoObservation
    /\ tick = 0
    /\ tickLog = NewTick
    /\ counts = NoCounts
    /\ exitStatus = NotExited
    /\ raised = NoException
    /\ snapshots = 0

\* load_app_config, as build_default_app calls it before it builds the mapper.
MapperLoad ==
    /\ pc = "mapper_load"
    /\ UNCHANGED snapshots
    /\ config' = LoadAppConfig(settings)
    /\ pc' = "mapper_call"
    /\ UNCHANGED <<settings, iterations, stop, runState, measurement, command,
                   observation, tick, tickLog, counts, exitStatus, raised>>

\* One call of DefaultColorMapper.map_measurement: it returns the command,
\* or raises where the code can raise.
MapperCall ==
    /\ pc = "mapper_call"
    /\ UNCHANGED snapshots
    /\ \E m \in MapperMeasurements :
          /\ measurement' = m
          /\ IF MapRaises(PipelineMapperConfig(config.mapper), m)
             THEN /\ raised' = Exception("ZeroDivisionError", "map")
                  /\ UNCHANGED command
             ELSE /\ command' = MapMeasurement(PipelineMapperConfig(config.mapper), m)
                  /\ UNCHANGED raised
    /\ counts' = Count("map")
    /\ pc' = "mapper_done"
    /\ UNCHANGED <<settings, iterations, config, stop, runState, observation, tick,
                   tickLog, exitStatus>>

MapperNext ==
    \/ MapperLoad
    \/ MapperCall

MapperSpec == MapperInit /\ [][MapperNext]_vars

\* ------------------------------------- the mapper on a configuration of
\* ------------------------------------- the caller's own

\* MapperConfig records built directly, not by the loader: lux ranges that
\* are wide, narrow, of width zero and negative.
DirectMapperSettings ==
    {[DefaultMapperSettings EXCEPT !.dark_lux = dl, !.bright_lux = bl,
                                   !.min_brightness = minb, !.max_brightness = maxb,
                                   !.use_camera_average = use] :
        dl   \in {0, 100 * Den},
        bl   \in {0, 1, 100 * Den, 255 * Den},
        minb \in {0, 40 * Den},
        maxb \in {20 * Den, 255 * Den},
        use  \in BOOLEAN}

DirectInit ==
    /\ settings \in {Merge(ValidDeviceSections, EmptyMapperSection)}
    /\ iterations = NoIterations
    /\ pc = "mapper_call"
    /\ config \in {[NoConfig EXCEPT !.mapper = ms] : ms \in DirectMapperSettings}
    /\ stop = [has |-> FALSE, count |-> 0]
    /\ runState = "NotStarted"
    /\ measurement = NoMeasurement
    /\ command = NoCommand
    /\ observation = NoObservation
    /\ tick = 0
    /\ tickLog = NewTick
    /\ counts = NoCounts
    /\ exitStatus = NotExited
    /\ raised = NoException
    /\ snapshots = 0

DirectSpec == DirectInit /\ [][MapperCall]_vars

\* ================================================================== claims

\* The number of ticks asked for with --iterations N, N >= 0.
HasCount == iterations.has /\ iterations.n >= 0
RunEnded == runState \in {"Stopped", "Raised"}

\* C1: given a stop predicate that returns false N times and then true,
\* run() starts exactly N ticks (calls capture_measurement exactly N
\* times) and then returns, whatever the camera, the mapper and the lamp
\* do; after the predicate returned true nothing more is captured or sent.
C1_ExactlyNTicksThenReturns ==
    /\ (HasCount /\ RunEnded) =>
           /\ runState = "Stopped"
           /\ tick = iterations.n
           /\ counts.capture = iterations.n
    /\ (HasCount /\ iterations.n = 0) => (counts.capture = 0 /\ counts.apply = 0)
    /\ runState = "Stopped" => pc = "exited"

\* C4: once run() has entered the loop no error escapes it, whichever
\* step of a tick raises: an exception leaves the process only from
\* build_default_app, before the loop starts.
C4_NoErrorEscapesTheLoop ==
    /\ runState # "Raised"
    /\ raised # NoException => raised.at = "build"

\* A step in which the current tick's try block raised.
TickRaises == tickLog'.failed /\ ~tickLog.failed

\* C2: an exception raised by capture_measurement, map_measurement or
\* apply_state is caught and logged inside its tick: the loop stays
\* Running, the process does not end, and the tick goes on to its sleep,
\* from which a sleep that returns leads to the next stop check.
C2_TickFailureIsCaught ==
    [][/\ TickRaises =>
            /\ pc' = "sleep"
            /\ runState' = "Running"
            /\ ~exitStatus'.done
            /\ raised' = NoException
            /\ counts'.errorsLogged = counts.errorsLogged + 1
       /\ (pc = "sleep" /\ pc' # "sleep" /\ tickLog.failed /\ raised' = NoException) =>
            (pc' = "check" /\ runState' = "Running")
       /\ raised' # NoException => raised'.at \in {"build", "sleep"}]_vars

\* Two ticks in a row have failed and the loop is at its next stop check.
C2_Witness ==
    /\ pc = "check"
    /\ runState = "Running"
    /\ tick = 2
    /\ counts.errorsLogged = 2
    /\ tickLog.failed

\* C3: a tick whose capture or mapping raised calls apply_state not at
\* all; a tick whose capture and mapping returned calls it exactly once,
\* with the command mapped from that tick's measurement; over all ticks
\* so far the lamp was called once per mapped measurement, whatever
\* failed before.
C3_OneCommandPerMappedTick ==
    /\ tickLog.applyCalls > 0 =>
          /\ tickLog.captured /\ tickLog.mapped
          /\ tickLog.applyCalls = 1
          /\ tickLog.applied =
                MapMeasurement(PipelineMapperConfig(config.mapper), measurement)
    /\ (pc = "sleep" /\ tickLog.captured /\ tickLog.mapped) => tickLog.applyCalls = 1
    /\ pc \in {"check", "capture", "map", "sleep"} => counts.apply = counts.mapped
    /\ counts.apply <= counts.mapped

\* Tick 1 failed at capture and sent nothing; tick 2 sent its command.
C3_Witness ==
    /\ pc = "sleep"
    /\ tick = 2
    /\ counts.capture = 2
    /\ counts.map = 1
    /\ counts.apply = 1
    /\ tickLog.applyCalls = 1
    /\ ~tickLog.failed

\* The settings lack a key build_default_app requires.
Lacks(key) == settings[key].t = "none"
LacksRequired ==
    \/ Lacks("rtsp_url")
    \/ Lacks("device_id")
    \/ Lacks("local_key")
    \/ (Lacks("address") /\ Lacks("host"))

\* C5: when the settings lack rtsp_url, device_id, local_key or both
\* address and host, the process never enters the loop (nothing is
\* captured or sent) and ends with a non-zero status by the ValueError of
\* build_default_app; and that ValueError is never raised once the loop
\* runs.
C5_ConfigErrorsAreFatalAtStartup ==
    /\ LacksRequired =>
          /\ runState = "NotStarted"
          /\ pc \in {"main", "build", "exited"}
          /\ counts.capture = 0 /\ counts.apply = 0
          /\ pc = "exited" =>
                /\ exitStatus = Exited(1)
                /\ raised = Exception("ValueError", "build")
    /\ raised.kind = "ValueError" => (raised.at = "build" /\ runState = "NotStarted")
    /\ runState # "NotStarted" => ConfigError(config) = ""

\* The process has ended at startup for want of the lamp's local_key alone.
C5_Witness ==
    /\ pc = "exited"
    /\ Lacks("local_key") /\ ~Lacks("rtsp_url") /\ ~Lacks("device_id") /\ ~Lacks("address")
    /\ exitStatus = Exited(1)
    /\ raised.kind = "ValueError"

\* C6 as stated: for every integer N given with --iterations the run is
\* bounded by N: the counter starts at N, goes down by one per started
\* tick, never drops below 0, and at most N ticks are started.
C6_EveryCountBoundsTheRun ==
    iterations.has =>
        /\ tick <= (IF iterations.n < 0 THEN 0 ELSE iterations.n)
        /\ stop.has => (stop.count = iterations.n - tick /\ stop.count >= 0)

\* C6 amended: a count N >= 0 bounds the run as stated, and a loop that
\* reaches Stopped has started exactly N ticks and ends the process with
\* status 0; a negative count, like an omitted one, installs no stop
\* condition, and the loop never reaches Stopped.
C6_NonNegativeCountBoundsTheRun ==
    /\ pc # "main" => (stop.has <=> HasCount)
    /\ (HasCount /\ pc # "main") =>
          /\ stop.count = iterations.n - tick
          /\ stop.count >= 0
          /\ tick <= iterations.n
    /\ runState = "Stopped" =>
          /\ HasCount
          /\ tick = iterations.n
          /\ stop.count = 0
          /\ exitStatus = Exited(0)
          /\ raised = NoException
    /\ (pc # "main" /\ ~HasCount) => runState # "Stopped"

\* The largest count has run out: the loop stopped after MaxIter ticks.
C6_Witness ==
    /\ runState = "Stopped"
    /\ iterations.n = MaxIter
    /\ tick = MaxIter
    /\ counts.stop = MaxIter + 1

\* The mapper's configuration and the state after one call of it.
Cfg == PipelineMapperConfig(config.mapper)
Mapped == pc = "mapper_done"

\* m2 differs from m in lux only, and its lux is not lower.
SameButBrighter(m, m2) ==
    /\ m.has_lux /\ m2.has_lux
    /\ m2.lux >= m.lux
    /\ m2 = [m EXCEPT !.lux = m2.lux]

DarkSide(cfg, m) == IsDark(NormalizedInput(cfg, m))

\* C7 as stated: for a loaded configuration and two measurements that
\* differ in lux only, the one with the higher lux never gets the lower
\* brightness, also when only the lower lux is in the dark branch.
C7_BrightnessMonotone ==
    Mapped =>
        \A m2 \in MapperMeasurements :
            SameButBrighter(measurement, m2) =>
                command.brightness <= MapMeasurement(Cfg, m2).brightness

\* C7 amended: the same, for two measurements on the same side of the
\* dark point, and across it when darkBrightness <= minBrightness.
C7_BrightnessMonotoneBesideTheFloor ==
    Mapped =>
        \A m2 \in MapperMeasurements :
            (/\ SameButBrighter(measurement, m2)
             /\ \/ DarkSide(Cfg, measurement) = DarkSide(Cfg, m2)
                \/ Cfg.dark_brightness <= Cfg.min_brightness) =>
                command.brightness <= MapMeasurement(Cfg, m2).brightness

\* A dark measurement and a lit one with a strictly higher brightness.
C7_Witness ==
    /\ Mapped
    /\ DarkSide(Cfg, measurement)
    /\ Cfg.dark_brightness <= Cfg.min_brightness
    /\ \E m2 \in MapperMeasurements :
          /\ SameButBrighter(measurement, m2)
          /\ ~DarkSide(Cfg, m2)
          /\ command.brightness < MapMeasurement(Cfg, m2).brightness

\* The measurement carries a lux at or below the dark point.
LuxAtOrBelowDark == measurement.has_lux /\ measurement.lux <= Cfg.dark_lux

\* C8 as stated: for lux <= darkLux the color is darkColor, unscaled, and
\* the brightness equals max(minBrightness, darkBrightness).
C8_DarkBranchExact ==
    (Mapped /\ LuxAtOrBelowDark) =>
        /\ command.color = Cfg.dark_color
        /\ FInt(command.brightness) =
              PyMax(FUnits(Cfg.min_brightness), FUnits(Cfg.dark_brightness))

\* C8 amended: the brightness is max(minBrightness, darkBrightness)
\* clamped to [0, 255] and rounded to an integer, half to even.
C8_DarkBranchRounded ==
    (Mapped /\ LuxAtOrBelowDark) =>
        /\ command.color = Cfg.dark_color
        /\ command.brightness =
              RoundClamp255(PyMax(FUnits(Cfg.min_brightness), FUnits(Cfg.dark_brightness)))

\* A dark measurement under a configured dark color, with the floor above
\* minBrightness.
C8_Witness ==
    /\ Mapped /\ LuxAtOrBelowDark
    /\ Cfg.dark_brightness > Cfg.min_brightness
    /\ Cfg.dark_color = ColorRGB(255, 0, 7)
    /\ command.color = ColorRGB(255, 0, 7)
    /\ command.brightness = 100

\* The measurement carries a lux at or above the bright point.
LuxAtOrAboveBright == measurement.has_lux /\ measurement.lux >= Cfg.bright_lux

\* The color the bright end is to show: coolColor, or the camera average
\* in that mode, each channel times maxBrightness / 255, clamped, rounded.
BrightEndColor ==
    LET src == IF Cfg.use_camera_average /\ measurement.has_average_color
               THEN measurement.average_color ELSE Cfg.cool_color
        ch(c) == RoundClamp255(Frac(c * Cfg.max_brightness, 255 * Den))
    IN  ColorRGB(ch(src.red), ch(src.green), ch(src.blue))

\* C9: for lux >= brightLux the normalized input is 1, the
\* brightness is maxBrightness rounded, the color is the scaled coolColor
\* or camera average, for every configuration the loader returns.
C9_BrightEndExact ==
    (Mapped /\ LuxAtOrAboveBright) =>
        /\ NormalizedInput(Cfg, measurement) = FInt(1)
        /\ command.brightness = RoundHalfEven(FUnits(Cfg.max_brightness))
        /\ command.color = BrightEndColor

\* C10 as stated: the saturation of the command lies within
\* [minSaturation, maxSaturation].
C10_SaturationWithinConfiguredRange ==
    Mapped =>
        /\ FLeq(FUnits(Cfg.min_saturation), FInt(command.saturation))
        /\ FLeq(FInt(command.saturation), FUnits(Cfg.max_saturation))

\* C10 amended: it lies within the configured bounds after these are
\* clamped to [0, 255] and rounded like the saturation itself.
C10_SaturationWithinRoundedRange ==
    Mapped =>
        /\ RoundClamp255(FUnits(Cfg.min_saturation)) <= command.saturation
        /\ command.saturation <= RoundClamp255(FUnits(Cfg.max_saturation))

\* A grey average color (saturation 0) raised to a minimum that is not
\* a whole number.
C10_Witness ==
    /\ Mapped
    /\ measurement.has_average_color /\ measurement.average_color = Grey
    /\ Cfg.min_saturation = 100 * Den + 1
    /\ Cfg.max_saturation = 255 * Den
    /\ command.saturation = RoundHalfEven(FUnits(100 * Den + 1))

\* C11: every command map_measurement returns for a loaded configuration
\* has its brightness, its saturation and its three color channels among
\* the integers 0..255, the dark color included.
C11_CommandWithinByteRange ==
    Mapped =>
        /\ command.brightness \in 0 .. 255
        /\ command.saturation \in 0 .. 255
        /\ command.color.red \in 0 .. 255
        /\ command.color.green \in 0 .. 255
        /\ command.color.blue \in 0 .. 255

\* The dark color was configured as (300, -4, 7.5) and is sent as
\* (255, 0, 7), with brightness and saturation at the upper end.
C11_Witness ==
    /\ Mapped
    /\ settings.dark_color_red = RawNum(300 * Den)
    /\ settings.min_brightness = RawNum(300 * Den)
    /\ settings.min_saturation = RawNum(300 * Den)
    /\ DarkSide(Cfg, measurement)
    /\ command = LampColorCommand(ColorRGB(255, 0, 7), 255, 255)

Loaded == pc \in {"mapper_call", "mapper_done"}

\* C13: for every settings content the loaded mapper settings satisfy
\* bright_lux > dark_lux, max_brightness >= min_brightness,
\* max_saturation >= min_saturation, every dark_color channel is in
\* 0..255, and the brightness and saturation bounds lie in 0..255.
C13_LoadedSettingsWithinRange ==
    Loaded =>
        LET ms == config.mapper
        IN  /\ ms.bright_lux > ms.dark_lux
            /\ ms.max_brightness >= ms.min_brightness
            /\ ms.max_saturation >= ms.min_saturation
            /\ ms.dark_color.red \in 0 .. 255
            /\ ms.dark_color.green \in 0 .. 255
            /\ ms.dark_color.blue \in 0 .. 255
            /\ \A k \in {"min_brightness", "max_brightness",
                          "min_saturation", "max_saturation"} :
                   ms[k] >= 0 /\ ms[k] <= 255 * Den

\* The value given for a key is not a number, or is outside 0..255.
OutOfRange(v) == v.t # "none" /\ (v.t # "num" \/ v.u < 0 \/ v.u > 255 * Den)

\* C14: a value of the wrong type or out of range (a negative brightness
\* or saturation, a brightness above 255, bright_lux <= dark_lux) leaves
\* the field at its default.
C14_InvalidValuesKeepDefaults ==
    Loaded =>
        /\ \A k \in {"min_brightness", "max_brightness", "min_saturation",
                      "max_saturation", "dark_brightness"} :
               OutOfRange(settings[k]) => config.mapper[k] = DefaultMapperSettings[k]
        /\ (/\ settings.bright_lux.t = "num" /\ settings.dark_lux.t = "num"
            /\ settings.bright_lux.u <= settings.dark_lux.u) =>
               config.mapper.bright_lux = DefaultMapperSettings.bright_lux

\* The steps of a tick after its stop check, in the order of the code.
TickOrder == <<"capture", "map", "log", "apply", "sleep">>
Pos(e) == CHOOSE i \in 1 .. Len(TickOrder) : TickOrder[i] = e
InTick == pc \in {"capture", "map", "log", "apply", "sleep"}

\* C15: within a tick the steps happen in the order capture, map, apply,
\* sleep, each at most once (nothing is tried again after a failure), and
\* a tick starts only after the sleep of the tick before it has finished.
C15_TicksAreSequential ==
    /\ \A i, j \in 1 .. Len(tickLog.events) :
           i < j => Pos(tickLog.events[i]) < Pos(tickLog.events[j])
    /\ tickLog.applyCalls <= 1
    /\ counts.capture <= tick /\ counts.map <= tick /\ counts.apply <= tick
    /\ pc = "capture" => tickLog.events = <<>>
    /\ InTick => (tick >= 1 /\ counts.sleep = tick - 1)
    /\ pc = "check" => counts.sleep = tick

\* The second tick has gone through all its steps, after a first tick
\* that failed.
C15_Witness ==
    /\ pc = "check"
    /\ tick = 2
    /\ tickLog.events = TickOrder
    /\ counts.errorsLogged = 1
    /\ counts.sleep = 2

\* C16: in every tick the command is sent to the lamp before the
\* observation of that tick is recorded.
C16_SentBeforeObserved ==
    \A i \in 1 .. Len(tickLog.events) :
        tickLog.events[i] = "log" =>
            \E j \in 1 .. (i - 1) : tickLog.events[j] = "apply"

\* C17: the loop sleeps exactly once at the end of every started tick,
\* failed or not, so there is one sleep between two captures and as many
\* sleeps as ticks when the loop halts.
C17_OneSleepPerStartedTick ==
    /\ pc = "check" => counts.sleep = tick
    /\ RunEnded => counts.sleep = tick
    /\ counts.capture \in {counts.sleep, counts.sleep + 1}

\* C19: the normalized value the loop derives and records for a
\* measurement with lux and without normalized is lux / brightLux, for
\* the configured brightLux.
C19_NormalizedFromConfiguredBrightLux ==
    (/\ pc = "apply" /\ observation.logged
     /\ measurement.has_lux /\ ~measurement.has_normalized) =>
        observation.raw_normalized =
            FDiv(FUnits(measurement.lux), FUnits(config.mapper.bright_lux))

\* The measurement with its lux given as u units.
WithLux(m, u) == [m EXCEPT !.has_lux = TRUE, !.lux = u]

\* normalized * brightLux in lux units, when that is a whole number of units.
DerivedLuxUnits == measurement.normalized * Cfg.bright_lux
NeitherGiven == ~measurement.has_lux /\ ~measurement.has_normalized

\* What C18 says of every call but the one with neither value: a lux that
\* is present is used and normalized ignored; an absent lux is
\* normalized * brightLux.
LuxResolved ==
    /\ measurement.has_lux =>
          /\ EffectiveLux(Cfg, measurement) = FUnits(measurement.lux)
          /\ command = MapMeasurement(Cfg, [measurement EXCEPT !.has_normalized = FALSE])
    /\ (~measurement.has_lux /\ measurement.has_normalized) =>
          /\ EffectiveLux(Cfg, measurement) = Frac(DerivedLuxUnits, Den * Den)
          /\ DerivedLuxUnits % Den = 0 =>
                command = MapMeasurement(Cfg, WithLux(measurement, DerivedLuxUnits \div Den))
    /\ NeitherGiven =>
          /\ EffectiveLux(Cfg, measurement) = FUnits(Cfg.dark_lux)
          /\ command.color = Cfg.dark_color

\* C18 as stated: with neither value present the brightness is
\* max(minBrightness, darkBrightness).
C18_LuxResolutionExact ==
    Mapped =>
        /\ LuxResolved
        /\ NeitherGiven =>
              FInt(command.brightness) =
                 PyMax(FUnits(Cfg.min_brightness), FUnits(Cfg.dark_brightness))

\* C18 amended: that brightness is max(minBrightness, darkBrightness)
\* clamped to [0, 255] and rounded to an integer, half to even.
C18_LuxResolutionRounded ==
    Mapped =>
        /\ LuxResolved
        /\ NeitherGiven =>
              command.brightness =
                 RoundClamp255(PyMax(FUnits(Cfg.min_brightness), FUnits(Cfg.dark_brightness)))

\* A call with normalized 1/2 alone under brightLux 101: the lux is 50.5,
\* below the dark point 100, where 255/2 would have been above it.
C18_Witness ==
    /\ Mapped
    /\ ~measurement.has_lux /\ measurement.has_normalized
    /\ Cfg.dark_lux = 100 * Den /\ Cfg.bright_lux = 101 * Den
    /\ DarkSide(Cfg, measurement)
    /\ command.color = Cfg.dark_color

\* The lit branch: the source the claim names, before any rounding.
LitCase == Mapped /\ ~DarkSide(Cfg, measurement)
FromCamera == Cfg.use_camera_average /\ measurement.has_average_color
Provisional ==
    Blend(FUnits(Cfg.min_brightness), FUnits(Cfg.max_brightness),
          NormalizedInput(Cfg, measurement))
Weighted(warm, cool) == Blend(FInt(warm), FInt(cool), NormalizedInput(Cfg, measurement))
Scaled(x) == RoundClamp255(FMul(x, FDiv(Provisional, FInt(255))))

\* C20 as stated: in the lit branch the source is the camera average iff
\* useCameraAverage is set and an average was supplied, else the blend of
\* warmColor and coolColor weighted by the normalized input; the output
\* is the source times brightness / 255, clamped and rounded once.
C20_LitColorRoundedOnce ==
    LitCase =>
        LET avg == measurement.average_color
        IN  command.color =
              IF FromCamera
              THEN ColorRGB(Scaled(FInt(avg.red)), Scaled(FInt(avg.green)),
                            Scaled(FInt(avg.blue)))
              ELSE ColorRGB(Scaled(Weighted(Cfg.warm_color.red, Cfg.cool_color.red)),
                            Scaled(Weighted(Cfg.warm_color.green, Cfg.cool_color.green)),
                            Scaled(Weighted(Cfg.warm_color.blue, Cfg.cool_color.blue)))

\* C20 amended: the blend is clamped and rounded to whole channels before
\* it is scaled, so a blended output channel is rounded twice.
C20_LitColorBlendRoundedFirst ==
    LitCase =>
        LET avg == measurement.average_color
            whole(warm, cool) == FInt(RoundClamp255(Weighted(warm, cool)))
        IN  command.color =
              IF FromCamera
              THEN ColorRGB(Scaled(FInt(avg.red)), Scaled(FInt(avg.green)),
                            Scaled(FInt(avg.blue)))
              ELSE ColorRGB(Scaled(whole(Cfg.warm_color.red, Cfg.cool_color.red)),
                            Scaled(whole(Cfg.warm_color.green, Cfg.cool_color.green)),
                            Scaled(whole(Cfg.warm_color.blue, Cfg.cool_color.blue)))

\* A lit measurement in camera-average mode: the output is the orange
\* average, dimmed.
C20_Witness ==
    /\ LitCase
    /\ FromCamera
    /\ measurement.average_color = Orange
    /\ command.color.red \in 1 .. 199
    /\ command.color.red > command.color.green
    /\ command.color.green > command.color.blue

\* The source color of the RGB output as C21 names it: darkColor in the
\* dark branch, the warm/cool blend in whole channels otherwise.
OutputSourceWithoutAverage ==
    IF DarkSide(Cfg, measurement)
    THEN Cfg.dark_color
    ELSE ColorRGB(RoundClamp255(Weighted(Cfg.warm_color.red, Cfg.cool_color.red)),
                  RoundClamp255(Weighted(Cfg.warm_color.green, Cfg.cool_color.green)),
                  RoundClamp255(Weighted(Cfg.warm_color.blue, Cfg.cool_color.blue)))

C22_NoSnapshotLeftBehind ==
    /\ snapshots = 0
    /\ tickLog.cause \in {"CalledProcessError", "TimeoutExpired", "ImageAnalysisError"} =>
          (tickLog.failed /\ tickLog.error = "RuntimeError")
    /\ tickLog.cause # "" => ~tickLog.captured

\* The second capture in a row has failed, this one by ffmpeg's timeout,
\* and no file is left.
C22_Witness ==
    /\ pc = "sleep"
    /\ tick = 2
    /\ counts.capture = 2 /\ counts.errorsLogged = 2
    /\ tickLog.cause = "TimeoutExpired"
    /\ tickLog.error = "RuntimeError"
    /\ snapshots = 0

\* The calls apply_state would make for the color alone.
ColorOnly(cmd) == LampColorCommand(cmd.color, 0, 0)
IsPrefix(a, b) == Len(a) <= Len(b) /\ a = SubSeq(b, 1, Len(a))
Applying == tickLog.applyCalls = 1

====
